---- MODULE Spec2Model ----
(***************************************************************************)
(* The OID4VP Holder of src/oid4vp/holder.rs as a state machine.           *)
(*                                                                         *)
(* State: the credential store (VdcCollection), the Holder objects and the *)
(* pipeline instances ("calls") running on them.  A call walks through      *)
(* authorization_request (validate_request, the response-mode match,       *)
(* permission_request) and then, after the caller's selection, through     *)
(* submit_permission_response.  Every await of the code on the network is  *)
(* a step boundary; the outcome of a network exchange or of a store access *)
(* is drawn by the environment.  An Option is a sequence of length 0       *)
(* (None) or 1 (Some).                                                     *)
(***************************************************************************)
EXTENDS Integers, Sequences, FiniteSets, TLC

VARIABLES store, holders, calls

vars == <<store, holders, calls>>

(***************************************************************************)
(* Bounds.                                                                 *)
(***************************************************************************)
\* entries in the credential store
MaxStore == 2
\* credentials in the list given to new_with_credentials
MaxProvided == 2
\* credentials in one selection of the caller
MaxSelected == 1

(***************************************************************************)
(* Data.                                                                   *)
(***************************************************************************)
None == <<>>
Some(v) == <<v>>

Formats == {"X", "Y"}

\* ParsedCredential: a format and the claims its field paths resolve.
CredNameBirth == [format |-> "X", claims |-> {"name", "birthdate"}]
CredY == [format |-> "Y", claims |-> {"name"}]
ParsedCredentials == {CredNameBirth, CredY}

\* A stored credential: the raw form kept by the VdcCollection.  An entry
\* whose format is not a known one does not parse.
Corrupt == [format |-> "garbage", payload |-> {}]
Stored(cred) == [format |-> cred.format, payload |-> cred.claims]
StoredCredentials == {Stored(c) : c \in ParsedCredentials} \cup {Corrupt}

\* PresentationDefinition: a set of input descriptors.
DefName == {[formats |-> {"X"}, required |-> {"name"}]}
DefNameOrBirth ==
    {[formats |-> {"X", "Y"}, required |-> {"name"}],
     [formats |-> {"X"}, required |-> {"birthdate"}]}
\* A definition whose one descriptor constrains the format only.
DefFormatY == {[formats |-> {"Y"}, required |-> {}]}
PresentationDefinitions == {DefName, DefNameOrBirth, DefFormatY}

\* The field paths, in the order they are reported.
FieldPaths == <<"name", "birthdate">>

Dids == {"did:web:verifier"}
TrustedDidLists == {<<>>, <<"did:web:verifier">>}

ClientIdSchemes == {"did", "x509_san_dns"}
DirectPost == "direct_post"
DirectPostJwt == "direct_post.jwt"
ResponseModes == {DirectPost, DirectPostJwt, "fragment"}

\* A request URL, by what decoding it yields.  A URL that does not decode
\* carries nothing else.
BadUrl ==
    [decodes |-> FALSE, scheme |-> "did", client_id |-> "did:web:verifier",
     mode |-> DirectPost, def |-> DefName, by_ref |-> FALSE]
Urls ==
    {BadUrl} \cup
    [decodes : {TRUE}, scheme : ClientIdSchemes, client_id : Dids,
     mode : ResponseModes, def : PresentationDefinitions, by_ref : BOOLEAN]

\* Sequences over S of length at most n.
RECURSIVE SeqsUpTo(_, _)
SeqsUpTo(S, n) ==
    IF n = 0 THEN {<<>>}
    ELSE LET shorter == SeqsUpTo(S, n - 1)
         IN  shorter \cup {Append(s, x) : s \in shorter, x \in S}

Range(s) == {s[i] : i \in DOMAIN s}

(***************************************************************************)
(* Holder.                                                                 *)
(***************************************************************************)
\* Holder::metadata(): the static OpenID4VP metadata plus the vcdm2_sd_jwt
\* format with ES256 and the DID client-id scheme.
\* WalletMetadata::openid4vp_scheme_static() of the openid4vp crate.
openid4vp_scheme_static ==
    [authorization_endpoint |-> "openid4vp:",
     vp_formats_supported |-> {},
     client_id_schemes_supported |-> {}]

metadata ==
    [authorization_endpoint |-> openid4vp_scheme_static.authorization_endpoint,
     vp_formats_supported |->
        openid4vp_scheme_static.vp_formats_supported
            \cup {<<"vcdm2_sd_jwt", <<"ES256">>>>},
     client_id_schemes_supported |->
        openid4vp_scheme_static.client_id_schemes_supported \cup {"did"}]

\* No Holder yet.  constructor records which constructor built the Holder.
NoHolder ==
    [state |-> "none", error |-> "", constructor |-> "",
     vdc_collection |-> None, metadata |-> None, trusted_dids |-> <<>>,
     provided_credentials |-> None]

FailedHolder(kind) == [NoHolder EXCEPT !.state = "err", !.error = kind]

\* new keeping no reference to the store.
new_without_store(trusted_dids, clientOk, metadataOk) ==
    IF ~clientOk THEN FailedHolder("HttpClientInitialization")
    ELSE IF ~metadataOk THEN FailedHolder("MetadataInitialization")
    ELSE [state |-> "ok", error |-> "", constructor |-> "new",
          vdc_collection |-> None,
          metadata |-> Some(metadata), trusted_dids |-> trusted_dids,
          provided_credentials |-> None]

\* Holder::new
new(trusted_dids, clientOk, metadataOk) ==
    IF ~clientOk THEN FailedHolder("HttpClientInitialization")
    ELSE IF ~metadataOk THEN FailedHolder("MetadataInitialization")
    ELSE [state |-> "ok", error |-> "", constructor |-> "new",
          vdc_collection |-> Some("vdc"),
          metadata |-> Some(metadata), trusted_dids |-> trusted_dids,
          provided_credentials |-> None]

\* new_with_credentials taking the static metadata of the openid4vp crate
\* as it is.
new_with_credentials_static_metadata(provided_credentials, trusted_dids, clientOk, metadataOk) ==
    IF ~clientOk THEN FailedHolder("HttpClientInitialization")
    ELSE IF ~metadataOk THEN FailedHolder("MetadataInitialization")
    ELSE [state |-> "ok", error |-> "", constructor |-> "new_with_credentials",
          vdc_collection |-> None,
          metadata |-> Some(openid4vp_scheme_static),
          trusted_dids |-> trusted_dids,
          provided_credentials |-> Some(provided_credentials)]

\* Holder::new_with_credentials
new_with_credentials(provided_credentials, trusted_dids, clientOk, metadataOk) ==
    IF ~clientOk THEN FailedHolder("HttpClientInitialization")
    ELSE IF ~metadataOk THEN FailedHolder("MetadataInitialization")
    ELSE [state |-> "ok", error |-> "", constructor |-> "new_with_credentials",
          vdc_collection |-> None,
          metadata |-> Some(metadata), trusted_dids |-> trusted_dids,
          provided_credentials |-> Some(provided_credentials)]

(***************************************************************************)
(* Credentials, the store and the matcher.                                 *)
(***************************************************************************)
\* ParsedCredential::check_presentation_definition: the credential satisfies
\* at least one input descriptor, by format and by every required field.
check_presentation_definition(cred, definition) ==
    \E d \in definition :
        cred.format \in d.formats /\ d.required \subseteq cred.claims

\* Credential::try_into_parsed, as an Option (the matcher keeps only .ok()).
try_into_parsed(stored) ==
    IF stored.format \in Formats
    THEN Some([format |-> stored.format, claims |-> stored.payload])
    ELSE None

\* VdcCollection::all_entries: the identifiers of the entries.
all_entries(vdc) == [i \in 1..Len(vdc) |-> i]

\* What a get on the store comes to: the entry, or an error.  No entry
\* leaves the store while the pipeline runs, so every identifier that
\* all_entries returned has its entry.
GetOutcomes == {"ok", "err"}

\* VdcCollection::get(id), as the matcher sees it after .ok().flatten().
get(vdc, id, outcome) == IF outcome = "ok" THEN Some(vdc[id]) ELSE None

RECURSIVE Flatten(_)
Flatten(opts) ==
    IF opts = <<>> THEN <<>> ELSE Head(opts) \o Flatten(Tail(opts))

\* The closure of the filter_map over the store's identifiers.
lookup_parsed(vdc, id, outcome) ==
    LET cred == get(vdc, id, outcome)
    IN  IF cred = None THEN None ELSE try_into_parsed(cred[1])

\* The failures the filter_map over the store meets: a get that fails
\* ("lookup"), an entry that does not parse ("parse").
lookup_failures(vdc, read, getOutcome) ==
    {"lookup" : i \in {j \in read : getOutcome[j] = "err"}}
    \cup {"parse" : i \in {j \in read :
                              /\ getOutcome[j] = "ok"
                              /\ try_into_parsed(vdc[j]) = None}}

\* store_pool stopping at the first entry that does not load or parse (a
\* map_while in place of the filter_map).
RECURSIVE TakeWhileSome(_)
TakeWhileSome(opts) ==
    IF opts = <<>> \/ Head(opts) = None THEN <<>>
    ELSE Head(opts) \o TakeWhileSome(Tail(opts))

store_pool_map_while(vdc, getOutcome) ==
    LET ids == all_entries(vdc)
    IN  [credentials |-> TakeWhileSome([i \in 1..Len(ids) |->
                                    lookup_parsed(vdc, ids[i], getOutcome[ids[i]])]),
         read |-> Range(ids)]

\* The filter_map over the identifiers all_entries returned: the entries
\* that load and parse, in the store's order, and the identifiers read.
store_pool(vdc, getOutcome) ==
    LET ids == all_entries(vdc)
    IN  [credentials |-> Flatten([i \in 1..Len(ids) |->
                                    lookup_parsed(vdc, ids[i], getOutcome[ids[i]])]),
         read |-> Range(ids)]

NoPool ==
    [ok |-> TRUE, error |-> "", credentials |-> <<>>, enumerated |-> FALSE,
     read |-> {}, failures |-> {}]

\* candidate_pool with a failing all_entries taken as an empty store.
candidate_pool_swallow_enumeration(holder, vdc, enumOk, getOutcome) ==
    IF holder.provided_credentials # None
    THEN [NoPool EXCEPT !.credentials = holder.provided_credentials[1]]
    ELSE IF holder.vdc_collection = None
    THEN NoPool
    ELSE IF ~enumOk
    THEN [NoPool EXCEPT !.enumerated = TRUE, !.failures = {"enumeration"}]
    ELSE LET entries == store_pool(vdc, getOutcome)
         IN  [NoPool EXCEPT
                !.credentials = entries.credentials,
                !.enumerated = TRUE,
                !.read = entries.read,
                !.failures = lookup_failures(vdc, entries.read, getOutcome)]

\* candidate_pool without the arm of the provided list.
candidate_pool_ignore_provided(holder, vdc, enumOk, getOutcome) ==
    IF holder.vdc_collection = None
    THEN NoPool
    ELSE IF ~enumOk
    THEN [NoPool EXCEPT !.ok = FALSE, !.error = "VdcCollection",
                        !.enumerated = TRUE, !.failures = {"enumeration"}]
    ELSE LET entries == store_pool(vdc, getOutcome)
         IN  [NoPool EXCEPT
                !.credentials = entries.credentials,
                !.enumerated = TRUE,
                !.read = entries.read,
                !.failures = lookup_failures(vdc, entries.read, getOutcome)]

\* The candidate pool of search_credentials_vs_presentation_definition: the
\* provided list, or else the entries of the store.  enumOk and getOutcome
\* are what the store answers to all_entries and to each get.
candidate_pool(holder, vdc, enumOk, getOutcome) ==
    IF holder.provided_credentials # None
    THEN [NoPool EXCEPT !.credentials = holder.provided_credentials[1]]
    ELSE IF holder.vdc_collection = None
    THEN NoPool
    ELSE IF ~enumOk
    THEN [NoPool EXCEPT !.ok = FALSE, !.error = "VdcCollection",
                        !.enumerated = TRUE, !.failures = {"enumeration"}]
    ELSE LET entries == store_pool(vdc, getOutcome)
         IN  [NoPool EXCEPT
                !.credentials = entries.credentials,
                !.enumerated = TRUE,
                !.read = entries.read,
                !.failures = lookup_failures(vdc, entries.read, getOutcome)]

\* filter_matching without the test: the pool is returned as it is.
filter_matching_unfiltered(pool, definition) == pool

\* The filter_map by check_presentation_definition.
filter_matching(pool, definition) ==
    SelectSeq(pool, LAMBDA cred : check_presentation_definition(cred, definition))

\* Holder::search_credentials_vs_presentation_definition; tested is the
\* pool the definition was checked against.
search_credentials_vs_presentation_definition(holder, vdc, definition, enumOk, getOutcome) ==
    LET pool == candidate_pool(holder, vdc, enumOk, getOutcome)
    IN  IF ~pool.ok
        THEN [ok |-> FALSE, error |-> pool.error, credentials |-> <<>>,
              enumerated |-> pool.enumerated, read |-> pool.read,
              tested |-> <<>>, failures |-> pool.failures]
        ELSE [ok |-> TRUE, error |-> "",
              credentials |-> filter_matching(pool.credentials, definition),
              enumerated |-> pool.enumerated, read |-> pool.read,
              tested |-> pool.credentials, failures |-> pool.failures]

(***************************************************************************)
(* Calls.                                                                  *)
(***************************************************************************)
\* A pipeline instance.  trace, enumerated, read, tested, built and
\* failures record what the authorization_request call did, verifications
\* the calls of the Holder's did; submit_trace and deliveries record what
\* the latest submit_permission_response did, answer what the Verifier's
\* endpoint answered to its delivery.
IdleCall ==
    [pc |-> "idle", holder |-> 0, url |-> BadUrl, request |-> None,
     result |-> "none", error |-> "", detail |-> "",
     permission_request |-> None, response |-> None,
     submit_result |-> "none", submit_error |-> "", redirect |-> None,
     trace |-> <<>>, enumerated |-> FALSE, read |-> {}, tested |-> <<>>,
     built |-> FALSE, failures |-> {}, verifications |-> <<>>,
     submit_trace |-> <<>>, deliveries |-> 0, submit_failures |-> {},
     answer |-> ""]

Err(call, pc, kind, detail) ==
    [call EXCEPT !.pc = pc, !.result = "Err", !.error = kind, !.detail = detail]

(***************************************************************************)
(* Request validation.                                                     *)
(***************************************************************************)
\* The AuthorizationRequestObject a URL decodes to.
Decode(url) ==
    [client_id_scheme |-> url.scheme,
     client_id |-> url.client_id,
     response_mode |-> url.mode,
     presentation_definition |-> IF url.by_ref THEN None ELSE Some(url.def),
     presentation_definition_uri |-> IF url.by_ref THEN Some(url.def) ELSE None]

\* verify_with_resolver of the openid4vp crate: the signature checks against
\* the resolved key (sigOk, the environment's answer) and the client
\* identifier is among the trusted ones.
verify_with_resolver(wallet_metadata, decoded_request, sigOk, trusted_dids) ==
    /\ sigOk
    /\ decoded_request.client_id \in trusted_dids

\* did_trusted taking the Holder's trusted_dids as the allow-list.
did_trusted_holder_list(holder, decoded_request) == Range(holder.trusted_dids)

\* The allow-list did hands to verify_with_resolver: the client identifier
\* of the request itself.
did_trusted(holder, decoded_request) ==
    LET client_id == decoded_request.client_id
    IN  {client_id}

\* RequestVerifier::did of the Holder.
did(holder, decoded_request, sigOk) ==
    verify_with_resolver(holder.metadata, decoded_request, sigOk,
                         did_trusted(holder, decoded_request))

\* The scheme's verification: the Holder implements did only, every other
\* scheme is rejected.
verify_request(holder, decoded_request, sigOk) ==
    IF decoded_request.client_id_scheme = "did"
    THEN did(holder, decoded_request, sigOk)
    ELSE FALSE

\* The calls of the Holder's did that the verification of a request makes,
\* each with its allow-list, the environment's answer and its verdict.
did_calls(holder, decoded_request, sigOk) ==
    IF decoded_request.client_id_scheme = "did"
    THEN <<[trusted |-> did_trusted(holder, decoded_request),
            sig_ok |-> sigOk,
            verified |-> did(holder, decoded_request, sigOk)]>>
    ELSE <<>>

\* Wallet::validate_request: decode the URL, then verify by scheme.
validate_request(holder, url, sigOk) ==
    IF ~url.decodes
    THEN [ok |-> FALSE, request |-> None, verifications |-> <<>>]
    ELSE IF ~verify_request(holder, Decode(url), sigOk)
    THEN [ok |-> FALSE, request |-> None,
          verifications |-> did_calls(holder, Decode(url), sigOk)]
    ELSE [ok |-> TRUE, request |-> Some(Decode(url)),
          verifications |-> did_calls(holder, Decode(url), sigOk)]

\* authorization_request with the result of the verification ignored: a URL
\* that decodes goes on whatever validate_request said.
authorization_request_unverified(call, holder, sigOk) ==
    LET validated == validate_request(holder, call.url, sigOk)
        traced == [call EXCEPT
                    !.trace = Append(@, "validate_request"),
                    !.failures = IF validated.ok THEN @ ELSE @ \cup {"validation"}]
    IN  IF ~call.url.decodes
        THEN Err(traced, "failed", "RequestValidation", "")
        ELSE LET request == Decode(call.url)
             IN  IF request.response_mode \in {DirectPost, DirectPostJwt}
                 THEN [traced EXCEPT !.pc = "resolving",
                                     !.request = Some(request)]
                 ELSE Err([traced EXCEPT !.failures = @ \cup {"response_mode"}],
                          "failed", "UnsupportedResponseMode",
                          request.response_mode)

\* authorization_request without the match on the response mode: every
\* validated request goes on to permission_request.
authorization_request_any_mode(call, holder, sigOk) ==
    LET validated == validate_request(holder, call.url, sigOk)
        traced == [call EXCEPT !.trace = Append(@, "validate_request")]
    IN  IF ~validated.ok
        THEN Err([traced EXCEPT !.failures = @ \cup {"validation"}],
                 "failed", "RequestValidation", "")
        ELSE [traced EXCEPT !.pc = "resolving",
                            !.request = Some(validated.request[1])]

\* Holder::authorization_request up to the call of permission_request.
authorization_request(call, holder, sigOk) ==
    LET validated == validate_request(holder, call.url, sigOk)
        traced == [call EXCEPT !.trace = Append(@, "validate_request"),
                               !.verifications = @ \o validated.verifications]
    IN  IF ~validated.ok
        THEN Err([traced EXCEPT !.failures = @ \cup {"validation"}],
                 "failed", "RequestValidation", "")
        ELSE LET request == validated.request[1]
             IN  IF request.response_mode \in {DirectPost, DirectPostJwt}
                 THEN [traced EXCEPT !.pc = "resolving",
                                     !.request = Some(request)]
                 ELSE Err([traced EXCEPT !.failures = @ \cup {"response_mode"}],
                          "failed", "UnsupportedResponseMode",
                          request.response_mode)

(***************************************************************************)
(* Definition resolution, matching and the PermissionRequest.              *)
(***************************************************************************)
\* What resolving the definition of a request can come to: an inline
\* definition is parsed, a referenced one is fetched and parsed.
ResolveOutcomes(request) ==
    IF request.presentation_definition # None
    THEN {"ok", "parse_error"}
    ELSE {"ok", "fetch_error", "parse_error"}

\* AuthorizationRequestObject::resolve_presentation_definition
resolve_presentation_definition(request, outcome) ==
    IF outcome # "ok" THEN None
    ELSE IF request.presentation_definition # None
    THEN request.presentation_definition
    ELSE request.presentation_definition_uri

\* PermissionRequest::new
NewPermissionRequest(definition, credentials, request) ==
    [definition |-> definition, credentials |-> credentials, request |-> request]

\* PermissionRequest::requested_fields: the fields of the input descriptors
\* of the definition that the credential satisfies.
requested_fields(request, credential) ==
    LET satisfied == {d \in request.definition :
                        /\ credential.format \in d.formats
                        /\ d.required \subseteq credential.claims}
        fields == UNION {d.required : d \in satisfied}
    IN  SelectSeq(FieldPaths, LAMBDA f : f \in fields)

\* permission_request failing when no credential matches.
permission_request_reject_empty(call, holder, vdc, outcome, enumOk, getOutcome) ==
    LET request == call.request[1]
        resolved == resolve_presentation_definition(request, outcome)
        traced ==
            [call EXCEPT !.trace =
                @ \o (IF request.presentation_definition = None
                      THEN <<"resolve_presentation_definition",
                             "fetch_presentation_definition">>
                      ELSE <<"resolve_presentation_definition">>)]
    IN  IF resolved = None
        THEN Err([traced EXCEPT !.failures = @ \cup {"resolution"}],
                 "failed", "PresentationDefinitionResolution", outcome)
        ELSE LET presentation_definition == resolved[1]
                 found == search_credentials_vs_presentation_definition(
                              holder, vdc, presentation_definition, enumOk, getOutcome)
                 searched ==
                    [traced EXCEPT
                        !.trace = Append(@, "search_credentials"),
                        !.enumerated = found.enumerated,
                        !.read = found.read,
                        !.tested = found.tested,
                        !.failures = @ \cup found.failures]
             IN  IF ~found.ok
                 THEN Err(searched, "failed", found.error, "")
                 ELSE IF found.credentials = <<>>
                 THEN Err(searched, "failed", "NoMatchingCredential", "")
                 ELSE [searched EXCEPT
                        !.pc = "offered",
                        !.result = "Ok",
                        !.trace = Append(@, "PermissionRequest::new"),
                        !.built = TRUE,
                        !.permission_request =
                            Some(NewPermissionRequest(presentation_definition,
                                                      found.credentials, request))]

\* permission_request with a best-effort definition: a definition that does
\* not resolve is replaced by the empty one and the matcher runs.
permission_request_best_effort(call, holder, vdc, outcome, enumOk, getOutcome) ==
    LET request == call.request[1]
        resolved == resolve_presentation_definition(request, outcome)
        traced ==
            [call EXCEPT
                !.trace =
                    @ \o (IF request.presentation_definition = None
                          THEN <<"resolve_presentation_definition",
                                 "fetch_presentation_definition">>
                          ELSE <<"resolve_presentation_definition">>),
                !.failures = IF resolved = None THEN @ \cup {"resolution"} ELSE @]
        presentation_definition == IF resolved = None THEN {} ELSE resolved[1]
        found == search_credentials_vs_presentation_definition(
                     holder, vdc, presentation_definition, enumOk, getOutcome)
        searched ==
            [traced EXCEPT
                !.trace = Append(@, "search_credentials"),
                !.enumerated = found.enumerated,
                !.read = found.read,
                !.tested = found.tested,
                !.failures = @ \cup found.failures]
    IN  IF ~found.ok
        THEN Err(searched, "failed", found.error, "")
        ELSE [searched EXCEPT
                !.pc = "offered",
                !.result = "Ok",
                !.trace = Append(@, "PermissionRequest::new"),
                !.built = TRUE,
                !.permission_request =
                    Some(NewPermissionRequest(presentation_definition,
                                              found.credentials, request))]

\* Holder::permission_request
permission_request(call, holder, vdc, outcome, enumOk, getOutcome) ==
    LET request == call.request[1]
        resolved == resolve_presentation_definition(request, outcome)
        traced ==
            [call EXCEPT !.trace =
                @ \o (IF request.presentation_definition = None
                      THEN <<"resolve_presentation_definition",
                             "fetch_presentation_definition">>
                      ELSE <<"resolve_presentation_definition">>)]
    IN  IF resolved = None
        THEN Err([traced EXCEPT !.failures = @ \cup {"resolution"}],
                 "failed", "PresentationDefinitionResolution", outcome)
        ELSE LET presentation_definition == resolved[1]
                 found == search_credentials_vs_presentation_definition(
                              holder, vdc, presentation_definition, enumOk, getOutcome)
                 searched ==
                    [traced EXCEPT
                        !.trace = Append(@, "search_credentials"),
                        !.enumerated = found.enumerated,
                        !.read = found.read,
                        !.tested = found.tested,
                        !.failures = @ \cup found.failures]
             IN  IF ~found.ok
                 THEN Err(searched, "failed", found.error, "")
                 ELSE [searched EXCEPT
                        !.pc = "offered",
                        !.result = "Ok",
                        !.trace = Append(@, "PermissionRequest::new"),
                        !.built = TRUE,
                        !.permission_request =
                            Some(NewPermissionRequest(presentation_definition,
                                                      found.credentials, request))]

(***************************************************************************)
(* The response and its submission.                                        *)
(***************************************************************************)
\* PermissionRequest::create_permission_response
create_permission_response(request, selected_credentials) ==
    [selected_credentials |-> selected_credentials,
     presentation_definition |-> request.definition,
     authorization_request |-> request.request]

\* PermissionResponse::authorization_response: the payload, or the error of
\* a credential whose claims cannot be disclosed (buildOk is FALSE).
authorization_response(response, buildOk) ==
    IF buildOk
    THEN [ok |-> TRUE, error |-> "",
          payload |-> Some([vp_token |-> response.selected_credentials])]
    ELSE [ok |-> FALSE, error |-> "ResponseSubmission", payload |-> None]

RedirectUrl == "https://verifier.example/done"
DeliveryOutcomes ==
    {"redirect", "ack", "transport_error", "bad_status", "encoding_error"}

\* Holder::submit_permission_response up to the await of submit_response:
\* the payload is built, then handed to submit_response.
submit_permission_response(call, buildOk) ==
    LET payload == authorization_response(call.response[1], buildOk)
        started ==
            [call EXCEPT !.submit_trace = <<"authorization_response">>,
                         !.submit_result = "none", !.submit_error = "",
                         !.redirect = None, !.deliveries = 0,
                         !.submit_failures = {}, !.answer = ""]
    IN  IF ~payload.ok
        THEN [started EXCEPT !.pc = "submit_failed",
                             !.submit_result = "Err",
                             !.submit_error = payload.error,
                             !.submit_failures = {"build"}]
        ELSE [started EXCEPT !.pc = "posting",
                             !.submit_trace = Append(@, "submit_response"),
                             !.deliveries = @ + 1]

\* submit_response_result without the map_err: the error of submit_response
\* is returned as it is.
submit_response_result_unmapped(call, outcome) ==
    IF outcome = "redirect"
    THEN [call EXCEPT !.pc = "submitted", !.submit_result = "Ok",
                      !.redirect = Some(RedirectUrl)]
    ELSE IF outcome = "ack"
    THEN [call EXCEPT !.pc = "submitted", !.submit_result = "Ok",
                      !.redirect = None]
    ELSE [call EXCEPT !.pc = "submit_failed", !.submit_result = "Err",
                      !.submit_error = outcome,
                      !.submit_failures = {outcome}]

\* submit_response_result with one retry of a failed delivery.
submit_response_result_retry(call, outcome) ==
    IF outcome = "redirect"
    THEN [call EXCEPT !.pc = "submitted", !.submit_result = "Ok",
                      !.redirect = Some(RedirectUrl)]
    ELSE IF outcome = "ack"
    THEN [call EXCEPT !.pc = "submitted", !.submit_result = "Ok",
                      !.redirect = None]
    ELSE [call EXCEPT !.pc = "submit_failed", !.submit_result = "Err",
                      !.submit_error = "ResponseSubmission",
                      !.submit_trace = Append(@, "submit_response"),
                      !.deliveries = @ + 1,
                      !.submit_failures = {outcome}]

\* submit_response_result with the response URI of the request returned
\* when the endpoint names no redirect.
submit_response_result_fallback_url(call, outcome) ==
    IF outcome = "redirect"
    THEN [call EXCEPT !.pc = "submitted", !.submit_result = "Ok",
                      !.answer = outcome,
                      !.redirect = Some(RedirectUrl)]
    ELSE IF outcome = "ack"
    THEN [call EXCEPT !.pc = "submitted", !.submit_result = "Ok",
                      !.answer = outcome,
                      !.redirect = Some("https://verifier.example/response")]
    ELSE [call EXCEPT !.pc = "submit_failed", !.submit_result = "Err",
                      !.answer = outcome,
                      !.submit_error = "ResponseSubmission",
                      !.submit_failures = {outcome}]

\* The end of Holder::submit_permission_response: the result of
\* submit_response, its error mapped to ResponseSubmission.
submit_response_result(call, outcome) ==
    IF outcome = "redirect"
    THEN [call EXCEPT !.pc = "submitted", !.submit_result = "Ok",
                      !.answer = outcome,
                      !.redirect = Some(RedirectUrl)]
    ELSE IF outcome = "ack"
    THEN [call EXCEPT !.pc = "submitted", !.submit_result = "Ok",
                      !.answer = outcome,
                      !.redirect = None]
    ELSE [call EXCEPT !.pc = "submit_failed", !.submit_result = "Err",
                      !.answer = outcome,
                      !.submit_error = "ResponseSubmission",
                      !.submit_failures = {outcome}]

(***************************************************************************)
(* Actions.                                                                *)
(***************************************************************************)
\* The positions in which no call of the Holder is running for the instance.
Resting == {"failed", "offered", "responded", "submitted", "submit_failed"}

\* The positions in which a call of the Holder is suspended on the network.
Suspended == {"validating", "resolving", "posting"}

NewHolder(h) ==
    /\ holders[h].state = "none"
    /\ \E trusted_dids \in TrustedDidLists, clientOk \in BOOLEAN, metadataOk \in BOOLEAN :
        holders' = [holders EXCEPT ![h] = new(trusted_dids, clientOk, metadataOk)]
    /\ UNCHANGED <<store, calls>>

NewHolderWithCredentials(h) ==
    /\ holders[h].state = "none"
    /\ \E provided \in SeqsUpTo(ParsedCredentials, MaxProvided),
          trusted_dids \in TrustedDidLists,
          clientOk \in BOOLEAN, metadataOk \in BOOLEAN :
        holders' = [holders EXCEPT
                        ![h] = new_with_credentials(provided, trusted_dids,
                                                    clientOk, metadataOk)]
    /\ UNCHANGED <<store, calls>>

\* The caller calls authorization_request(url) on holder h, with a URL
\* among urls.
StartAuthorizationRequestOf(c, urls) ==
    /\ calls[c].pc = "idle"
    /\ \E h \in DOMAIN holders, url \in urls :
        /\ holders[h].state = "ok"
        /\ calls' = [calls EXCEPT
                        ![c] = [IdleCall EXCEPT !.pc = "validating",
                                                !.holder = h, !.url = url]]
    /\ UNCHANGED <<store, holders>>

StartAuthorizationRequest(c) == StartAuthorizationRequestOf(c, Urls)

\* AuthorizationRequest behind a lock held over the awaits: the call goes
\* on only while no other call is suspended.
AuthorizationRequest_serialized(c) ==
    /\ calls[c].pc = "validating"
    /\ \A d \in DOMAIN calls \ {c} : calls[d].pc \notin Suspended
    /\ \E sigOk \in BOOLEAN :
        calls' = [calls EXCEPT
                    ![c] = authorization_request(calls[c], holders[calls[c].holder], sigOk)]
    /\ UNCHANGED <<store, holders>>

\* validate_request returns and the response mode is matched.
AuthorizationRequest(c) ==
    /\ calls[c].pc = "validating"
    /\ \E sigOk \in BOOLEAN :
        calls' = [calls EXCEPT
                    ![c] = authorization_request(calls[c], holders[calls[c].holder], sigOk)]
    /\ UNCHANGED <<store, holders>>

\* PermissionRequest keeping the pool it tested in the Holder, as the list
\* of provided credentials.
PermissionRequest_caching(c) ==
    /\ calls[c].pc = "resolving"
    /\ \E outcome \in ResolveOutcomes(calls[c].request[1]),
          enumOk \in BOOLEAN,
          getOutcome \in [1..Len(store) -> GetOutcomes] :
        LET returned == permission_request(calls[c], holders[calls[c].holder],
                                           store, outcome, enumOk, getOutcome)
        IN  /\ calls' = [calls EXCEPT ![c] = returned]
            /\ holders' = [holders EXCEPT
                            ![calls[c].holder].provided_credentials =
                                Some(returned.tested)]
    /\ UNCHANGED store

\* resolve_presentation_definition returns; the matcher runs and the
\* PermissionRequest is built.
PermissionRequest(c) ==
    /\ calls[c].pc = "resolving"
    /\ \E outcome \in ResolveOutcomes(calls[c].request[1]),
          enumOk \in BOOLEAN,
          getOutcome \in [1..Len(store) -> GetOutcomes] :
        calls' = [calls EXCEPT
                    ![c] = permission_request(calls[c], holders[calls[c].holder],
                                              store, outcome, enumOk, getOutcome)]
    /\ UNCHANGED <<store, holders>>

\* The caller selects credentials, among selections, and creates the
\* PermissionResponse.
CreatePermissionResponseOf(c, selections) ==
    /\ calls[c].pc = "offered"
    /\ \E selected \in selections :
        calls' = [calls EXCEPT
                    ![c].pc = "responded",
                    ![c].response =
                        Some(create_permission_response(
                                calls[c].permission_request[1], selected))]
    /\ UNCHANGED <<store, holders>>

CreatePermissionResponse(c) ==
    CreatePermissionResponseOf(c, SeqsUpTo(ParsedCredentials, MaxSelected))

\* The caller calls submit_permission_response(response); a caller may
\* call it again after a failure.
SubmitPermissionResponse(c) ==
    /\ calls[c].pc \in {"responded", "submit_failed"}
    /\ \E buildOk \in BOOLEAN :
        calls' = [calls EXCEPT ![c] = submit_permission_response(calls[c], buildOk)]
    /\ UNCHANGED <<store, holders>>

\* submit_response returns.
SubmitResponseResult(c) ==
    /\ calls[c].pc = "posting"
    /\ \E outcome \in DeliveryOutcomes :
        calls' = [calls EXCEPT ![c] = submit_response_result(calls[c], outcome)]
    /\ UNCHANGED <<store, holders>>

\* The caller abandons the call at its suspension point: the future is
\* dropped with all it holds.
Abandon(c) ==
    /\ calls[c].pc \in Suspended
    /\ calls' = [calls EXCEPT ![c] = [IdleCall EXCEPT !.pc = "abandoned"]]
    /\ UNCHANGED <<store, holders>>

\* The caller drops what the calls returned; the instance is free for the
\* next request.
Finish(c) ==
    /\ calls[c].pc \in Resting \cup {"abandoned"}
    /\ calls' = [calls EXCEPT ![c] = IdleCall]
    /\ UNCHANGED <<store, holders>>

(***************************************************************************)
(* Specification: one Holder, one pipeline instance at a time.             *)
(***************************************************************************)
Init ==
    /\ store \in SeqsUpTo(StoredCredentials, MaxStore)
    /\ holders = [h \in {1} |-> NoHolder]
    /\ calls = [c \in {1} |-> IdleCall]

Next ==
    \/ \E h \in DOMAIN holders : NewHolder(h)
    \/ \E h \in DOMAIN holders : NewHolderWithCredentials(h)
    \/ \E c \in DOMAIN calls : StartAuthorizationRequest(c)
    \/ \E c \in DOMAIN calls : AuthorizationRequest(c)
    \/ \E c \in DOMAIN calls : PermissionRequest(c)
    \/ \E c \in DOMAIN calls : CreatePermissionResponse(c)
    \/ \E c \in DOMAIN calls : SubmitPermissionResponse(c)
    \/ \E c \in DOMAIN calls : SubmitResponseResult(c)
    \/ \E c \in DOMAIN calls : Abandon(c)
    \/ \E c \in DOMAIN calls : Finish(c)

Spec == Init /\ [][Next]_vars

(***************************************************************************)
(* Specification: two Holders on one store, or on one list, and two        *)
(* pipeline instances running at once on either of them.                   *)
(***************************************************************************)
ConcStore == <<Stored(CredNameBirth), Stored(CredY)>>
ConcProvided == <<CredNameBirth, CredY>>
ConcUrls ==
    [decodes : {TRUE}, scheme : {"did"}, client_id : Dids,
     mode : {DirectPost}, def : {DefName}, by_ref : BOOLEAN]
ConcSelections == {<<CredNameBirth>>}

InitConc ==
    /\ store = ConcStore
    /\ \/ holders = [h \in {1, 2} |-> new(<<>>, TRUE, TRUE)]
       \/ holders = [h \in {1, 2} |->
                        new_with_credentials(ConcProvided, <<>>, TRUE, TRUE)]
    /\ calls = [c \in {1, 2} |-> IdleCall]

NextConc ==
    \/ \E c \in DOMAIN calls : StartAuthorizationRequestOf(c, ConcUrls)
    \/ \E c \in DOMAIN calls : AuthorizationRequest(c)
    \/ \E c \in DOMAIN calls : PermissionRequest(c)
    \/ \E c \in DOMAIN calls : CreatePermissionResponseOf(c, ConcSelections)
    \/ \E c \in DOMAIN calls : SubmitPermissionResponse(c)
    \/ \E c \in DOMAIN calls : SubmitResponseResult(c)
    \/ \E c \in DOMAIN calls : Abandon(c)
    \/ \E c \in DOMAIN calls : Finish(c)

SpecConc == InitConc /\ [][NextConc]_vars

(***************************************************************************)
(* Properties.                                                             *)
(***************************************************************************)
\* The entries of the store that parse.
ParsedStore == {try_into_parsed(store[i])[1] :
                    i \in {j \in 1..Len(store) : try_into_parsed(store[j]) # None}}

\* Nothing of the definition, the credentials or the PermissionRequest was
\* touched by the call.
NothingExamined(call) ==
    /\ "resolve_presentation_definition" \notin Range(call.trace)
    /\ "fetch_presentation_definition" \notin Range(call.trace)
    /\ "search_credentials" \notin Range(call.trace)
    /\ ~call.enumerated
    /\ call.read = {}
    /\ call.tested = <<>>
    /\ ~call.built
    /\ call.permission_request = None

\* C1: when validate_request fails, authorization_request returns
\* RequestValidation and the call has resolved no definition, read or tested
\* no credential and built no PermissionRequest.
C1_ValidationFailureStops ==
    \A c \in DOMAIN calls :
        "validation" \in calls[c].failures =>
            /\ calls[c].pc = "failed"
            /\ calls[c].result = "Err"
            /\ calls[c].error = "RequestValidation"
            /\ calls[c].trace = <<"validate_request">>
            /\ NothingExamined(calls[c])

\* A request of the did scheme that decodes and is rejected by the
\* verification.
C1_Witness ==
    \E c \in DOMAIN calls :
        /\ calls[c].pc = "failed"
        /\ calls[c].error = "RequestValidation"
        /\ calls[c].url.decodes
        /\ calls[c].url.scheme = "did"

\* C2: the PermissionRequest of a successful authorization_request lists
\* exactly the credentials of the candidate pool that satisfy the resolved
\* definition: each listed one passes check_presentation_definition, each
\* one of the pool that passes is listed.  The pool is the provided list,
\* or the entries of the store that load and parse.
C2_ExactlyTheMatching ==
    \A c \in DOMAIN calls :
        calls[c].permission_request # None =>
            LET pr == calls[c].permission_request[1]
                holder == holders[calls[c].holder]
            IN  /\ pr.definition = calls[c].url.def
                /\ \A i \in DOMAIN pr.credentials :
                        check_presentation_definition(pr.credentials[i], pr.definition)
                /\ Range(pr.credentials) \subseteq Range(calls[c].tested)
                /\ \A cred \in Range(calls[c].tested) :
                        check_presentation_definition(cred, pr.definition)
                            => cred \in Range(pr.credentials)
                /\ IF holder.provided_credentials # None
                   THEN calls[c].tested = holder.provided_credentials[1]
                   ELSE /\ Range(calls[c].tested) \subseteq ParsedStore
                        /\ "lookup" \notin calls[c].failures
                                => Range(calls[c].tested) = ParsedStore

\* A pool of two credentials of which one satisfies the definition.
C2_Witness ==
    \E c \in DOMAIN calls :
        /\ calls[c].permission_request # None
        /\ Len(calls[c].tested) = 2
        /\ Len(calls[c].permission_request[1].credentials) = 1

\* C3: a request whose client identity scheme is not among the schemes the
\* wallet supports never yields a PermissionRequest: the call fails with
\* RequestValidation or UnsupportedResponseMode and the definition is
\* neither resolved nor fetched.
C3_UnsupportedSchemeFailsClosed ==
    \A c \in DOMAIN calls :
        /\ calls[c].pc \notin {"idle", "validating"}
        /\ calls[c].url.decodes
        /\ calls[c].url.scheme \notin metadata.client_id_schemes_supported
        => /\ calls[c].pc = "failed"
           /\ calls[c].error \in {"RequestValidation", "UnsupportedResponseMode"}
           /\ NothingExamined(calls[c])

\* A request of another scheme whose definition is given by reference.
C3_Witness ==
    \E c \in DOMAIN calls :
        /\ calls[c].pc = "failed"
        /\ calls[c].url.decodes
        /\ calls[c].url.scheme = "x509_san_dns"
        /\ calls[c].url.by_ref

\* validate_request has returned a request for the call.
Validated(call) == call.trace # <<>> /\ "validation" \notin call.failures

\* C4: a validated request whose response mode is neither DirectPost nor
\* DirectPostJwt fails with UnsupportedResponseMode carrying the mode, and
\* nothing further is done; with DirectPost or DirectPostJwt the call goes
\* on to the resolution of the definition.
C4_UnsupportedModeStops ==
    \A c \in DOMAIN calls :
        Validated(calls[c]) =>
            IF Decode(calls[c].url).response_mode \in {DirectPost, DirectPostJwt}
            THEN /\ "response_mode" \notin calls[c].failures
                 /\ calls[c].error # "UnsupportedResponseMode"
                 /\ \/ calls[c].pc = "resolving"
                    \/ "resolve_presentation_definition" \in Range(calls[c].trace)
            ELSE /\ calls[c].pc = "failed"
                 /\ calls[c].error = "UnsupportedResponseMode"
                 /\ calls[c].detail = Decode(calls[c].url).response_mode
                 /\ calls[c].trace = <<"validate_request">>
                 /\ NothingExamined(calls[c])

\* A verified request that asks for the fragment mode.
C4_Witness ==
    \E c \in DOMAIN calls :
        /\ Validated(calls[c])
        /\ calls[c].pc = "failed"
        /\ calls[c].error = "UnsupportedResponseMode"
        /\ calls[c].detail = "fragment"

\* C5: when the definition does not resolve, authorization_request fails
\* with PresentationDefinitionResolution; no definition is used, the
\* matcher does not run and no PermissionRequest is built.
C5_ResolutionFailureStops ==
    \A c \in DOMAIN calls :
        "resolution" \in calls[c].failures =>
            /\ calls[c].pc = "failed"
            /\ calls[c].error = "PresentationDefinitionResolution"
            /\ "search_credentials" \notin Range(calls[c].trace)
            /\ ~calls[c].enumerated
            /\ calls[c].read = {}
            /\ calls[c].tested = <<>>
            /\ ~calls[c].built
            /\ calls[c].permission_request = None

\* The reference to the definition is fetched and the fetch fails.
C5_Witness ==
    \E c \in DOMAIN calls :
        /\ calls[c].pc = "failed"
        /\ calls[c].error = "PresentationDefinitionResolution"
        /\ calls[c].detail = "fetch_error"
        /\ "fetch_presentation_definition" \in Range(calls[c].trace)

Returned(call) == call.pc \in Resting \cup {"posting"}

\* submit_permission_response has returned for the call.
SubmitReturned(call) == call.pc \in {"submitted", "submit_failed"}

AuthorizationErrors ==
    {"RequestValidation", "UnsupportedResponseMode",
     "PresentationDefinitionResolution", "VdcCollection"}

\* C7 as stated: every failure of a call gives an error result, but for a
\* store entry that does not parse; no failure of a lookup in the store is
\* swallowed.
C7_OnlyParseFailuresSwallowed ==
    \A c \in DOMAIN calls :
        /\ Returned(calls[c]) /\ calls[c].failures \ {"parse"} # {}
                => calls[c].result = "Err"
        /\ SubmitReturned(calls[c]) /\ calls[c].submit_failures # {}
                => calls[c].submit_result = "Err"

\* C7, amended: every failure of a call gives a typed error result, but
\* for the entries of the store that the matcher skips: an entry whose get
\* fails and an entry that does not parse.  A failure to enumerate the
\* store is returned as an error.
C7_OnlyStoreEntriesSkipped ==
    \A c \in DOMAIN calls :
        /\ Returned(calls[c]) =>
            /\ calls[c].result = "Err"
                    <=> calls[c].failures \ {"parse", "lookup"} # {}
            /\ calls[c].result = "Err" => calls[c].error \in AuthorizationErrors
            /\ calls[c].result # "Err" => calls[c].result = "Ok"
        /\ SubmitReturned(calls[c]) =>
            /\ calls[c].submit_result = "Err" <=> calls[c].submit_failures # {}
            /\ calls[c].submit_result # "Err" => calls[c].submit_result = "Ok"

\* A get on the store fails and the request succeeds.
C7_Witness ==
    \E c \in DOMAIN calls :
        /\ calls[c].pc = "offered"
        /\ calls[c].result = "Ok"
        /\ "lookup" \in calls[c].failures

\* The matcher ran over the store and the store could be enumerated.
SearchedStore(call) ==
    /\ "search_credentials" \in Range(call.trace)
    /\ holders[call.holder].provided_credentials = None
    /\ "enumeration" \notin call.failures

\* The indices of the store's entries that parse and satisfy the definition.
MatchingEntries(definition) ==
    {i \in 1..Len(store) :
        /\ try_into_parsed(store[i]) # None
        /\ check_presentation_definition(try_into_parsed(store[i])[1], definition)}

\* C8: for a Holder on the store, an entry that does not parse is a
\* non-match and never fails the request: once the store is enumerated the
\* call succeeds, and when every get succeeds the matched credentials are
\* exactly the entries that parse and satisfy the definition.
C8_ParseFailureIsSkipped ==
    \A c \in DOMAIN calls :
        SearchedStore(calls[c]) =>
            /\ calls[c].result = "Ok"
            /\ calls[c].permission_request # None
            /\ "lookup" \notin calls[c].failures =>
                LET pr == calls[c].permission_request[1]
                    matching == MatchingEntries(calls[c].url.def)
                IN  /\ Len(pr.credentials) = Cardinality(matching)
                    /\ Range(pr.credentials) =
                            {try_into_parsed(store[i])[1] : i \in matching}

\* The store holds an entry that does not parse, then one that satisfies
\* the definition; the one credential is matched.
C8_Witness ==
    \E c \in DOMAIN calls :
        /\ SearchedStore(calls[c])
        /\ store = <<Corrupt, Stored(CredNameBirth)>>
        /\ calls[c].failures = {"parse"}
        /\ calls[c].pc = "offered"
        /\ calls[c].permission_request[1].credentials = <<CredNameBirth>>

\* C9: for a Holder built with a list of credentials the list is the pool
\* of every authorization_request: the store is neither enumerated nor
\* read and the matched credentials are among the list.  Otherwise the
\* store is enumerated, every entry is read, and every entry that loads
\* and parses is tested.
C9_ProvidedListIsExclusive ==
    \A c \in DOMAIN calls :
        "search_credentials" \in Range(calls[c].trace) =>
            LET holder == holders[calls[c].holder]
            IN  IF holder.provided_credentials # None
                THEN /\ holder.vdc_collection = None
                     /\ ~calls[c].enumerated
                     /\ calls[c].read = {}
                     /\ calls[c].tested = holder.provided_credentials[1]
                     /\ calls[c].permission_request # None
                     /\ Range(calls[c].permission_request[1].credentials)
                            \subseteq Range(holder.provided_credentials[1])
                ELSE /\ calls[c].enumerated
                     /\ "enumeration" \notin calls[c].failures =>
                            /\ calls[c].read = 1..Len(store)
                            /\ Range(calls[c].tested) \subseteq ParsedStore
                            /\ "lookup" \notin calls[c].failures
                                    => Range(calls[c].tested) = ParsedStore

\* A Holder with a list, beside a store that is not empty.
C9_Witness ==
    \E c \in DOMAIN calls :
        /\ calls[c].pc = "offered"
        /\ holders[calls[c].holder].provided_credentials # None
        /\ Len(store) > 0
        /\ Len(calls[c].permission_request[1].credentials) > 0

\* C10: a call of submit_permission_response builds the payload first and
\* then makes one delivery; when the payload cannot be built no delivery is
\* made, and a delivery that fails is not made again in the call.
C10_OneDeliveryAfterPayload ==
    \A c \in DOMAIN calls :
        calls[c].submit_trace # <<>> =>
            /\ Head(calls[c].submit_trace) = "authorization_response"
            /\ calls[c].deliveries <= 1
            /\ calls[c].deliveries =
                    Cardinality({i \in DOMAIN calls[c].submit_trace :
                                    calls[c].submit_trace[i] = "submit_response"})
            /\ "build" \in calls[c].submit_failures => calls[c].deliveries = 0
            /\ \/ calls[c].pc \in {"posting", "submitted"}
               \/ /\ calls[c].pc = "submit_failed"
                  /\ "build" \notin calls[c].submit_failures
               => calls[c].deliveries = 1

\* The delivery fails in the transport.
C10_Witness ==
    \E c \in DOMAIN calls :
        /\ calls[c].pc = "submit_failed"
        /\ calls[c].submit_failures = {"transport_error"}
        /\ calls[c].deliveries = 1

\* C11: create_permission_response refuses an empty selection and a
\* selection with a credential that is not among the candidates, so every
\* PermissionResponse carries a non-empty selection taken from the
\* candidate list of its PermissionRequest.
C11_SelectionIsNonEmptySubset ==
    \A c \in DOMAIN calls :
        calls[c].response # None =>
            LET selected == calls[c].response[1].selected_credentials
                candidates == calls[c].permission_request[1].credentials
            IN  /\ selected # <<>>
                /\ Range(selected) \subseteq Range(candidates)

\* C12: for a request of the did scheme the Holder's did is called once,
\* before any credential is tested or offered; its allow-list is the
\* client identifier of the request alone, so the verdict is that of the
\* signature check and is the same for every trusted_dids list the Holder
\* could have been built with.
C12_VerdictIgnoresTrustedDids ==
    \A c \in DOMAIN calls :
        /\ calls[c].trace # <<>>
        /\ calls[c].url.decodes
        /\ calls[c].url.scheme = "did"
        => LET holder == holders[calls[c].holder]
               request == Decode(calls[c].url)
           IN  /\ Head(calls[c].trace) = "validate_request"
               /\ Len(calls[c].verifications) = 1
               /\ LET v == calls[c].verifications[1]
                  IN  /\ v.trusted = {request.client_id}
                      /\ v.verified <=> v.sig_ok
                      /\ v.verified <=> Validated(calls[c])
                      /\ ~v.verified => NothingExamined(calls[c])
                      /\ \A t \in TrustedDidLists :
                            did([holder EXCEPT !.trusted_dids = t], request, v.sig_ok)
                                = v.verified

\* A Holder that trusts no DID verifies a request of the did scheme.
C12_Witness ==
    \E c \in DOMAIN calls :
        /\ calls[c].pc = "offered"
        /\ holders[calls[c].holder].trusted_dids = <<>>
        /\ calls[c].url.scheme = "did"
        /\ calls[c].verifications # <<>>
        /\ calls[c].verifications[1].verified

\* C14: no step of authorization_request or submit_permission_response,
\* returning or abandoned at a suspension point, changes the store or a
\* field of a Holder; an abandoned call leaves nothing behind and a later
\* call starts with nothing of an earlier one.
C14_CallsLeaveStoreAndHolderUnchanged ==
    /\ [](\A c \in DOMAIN calls :
            /\ calls[c].pc = "abandoned"
                    => calls[c] = [IdleCall EXCEPT !.pc = "abandoned"]
            /\ calls[c].pc = "idle" => calls[c] = IdleCall
            /\ calls[c].pc = "validating"
                    => calls[c] = [IdleCall EXCEPT !.pc = "validating",
                                                   !.holder = calls[c].holder,
                                                   !.url = calls[c].url])
    /\ [][calls' # calls => store' = store /\ holders' = holders]_vars

\* A call has been abandoned at a suspension point.
C14_Witness ==
    \E c \in DOMAIN calls : calls[c].pc = "abandoned"

\* C17: when the delivery succeeds submit_permission_response returns
\* Some(url) with the redirect URL the endpoint answered, and None when the
\* endpoint answered without one; no URL is returned otherwise.
C17_RedirectIsTheEndpoints ==
    \A c \in DOMAIN calls :
        /\ calls[c].pc = "submitted" =>
            /\ calls[c].submit_result = "Ok"
            /\ calls[c].answer \in {"redirect", "ack"}
            /\ calls[c].answer = "redirect" => calls[c].redirect = Some(RedirectUrl)
            /\ calls[c].answer = "ack" => calls[c].redirect = None
        /\ calls[c].pc # "submitted" => calls[c].redirect = None

\* The endpoint acknowledges the delivery without a redirect.
C17_Witness ==
    \E c \in DOMAIN calls :
        /\ calls[c].pc = "submitted"
        /\ calls[c].answer = "ack"
        /\ calls[c].redirect = None

\* C18: the metadata of every constructed Holder is the value of
\* Holder::metadata(): the static defaults with the vcdm2_sd_jwt format
\* under ES256 and the DID client-id scheme added, whichever constructor
\* built the Holder; no step changes it.
C18_MetadataIsStatic ==
    /\ [](\A h \in DOMAIN holders :
            holders[h].state = "ok" =>
                /\ holders[h].metadata = Some(metadata)
                /\ holders[h].metadata[1].authorization_endpoint
                        = openid4vp_scheme_static.authorization_endpoint
                /\ openid4vp_scheme_static.vp_formats_supported
                        \subseteq holders[h].metadata[1].vp_formats_supported
                /\ <<"vcdm2_sd_jwt", <<"ES256">>>>
                        \in holders[h].metadata[1].vp_formats_supported
                /\ "did" \in holders[h].metadata[1].client_id_schemes_supported)
    /\ [][\A h \in DOMAIN holders :
            holders[h].state = "ok" => holders'[h].metadata = holders[h].metadata]_vars

\* A Holder built by new_with_credentials after a whole pipeline ran on it.
C18_Witness ==
    \E c \in DOMAIN calls :
        /\ calls[c].pc = "submitted"
        /\ holders[calls[c].holder].constructor = "new_with_credentials"
        /\ holders[calls[c].holder].metadata = Some(metadata)

\* C19: a Holder has exactly one candidate source: new gives it the store
\* and no list, new_with_credentials a list and no store; no step changes
\* either, so no search runs on a Holder with neither.
C19_ExactlyOneSource ==
    /\ [](/\ \A h \in DOMAIN holders :
                holders[h].state = "ok" =>
                    /\ holders[h].constructor \in {"new", "new_with_credentials"}
                    /\ holders[h].constructor = "new" =>
                            /\ holders[h].vdc_collection # None
                            /\ holders[h].provided_credentials = None
                    /\ holders[h].constructor = "new_with_credentials" =>
                            /\ holders[h].vdc_collection = None
                            /\ holders[h].provided_credentials # None
          /\ \A c \in DOMAIN calls :
                "search_credentials" \in Range(calls[c].trace) =>
                    LET holder == holders[calls[c].holder]
                    IN  /\ ~(holder.provided_credentials = None
                                /\ holder.vdc_collection = None)
                        /\ holder.provided_credentials = None => calls[c].enumerated)
    /\ [][\A h \in DOMAIN holders :
            holders[h].state = "ok" =>
                /\ holders'[h].vdc_collection = holders[h].vdc_collection
                /\ holders'[h].provided_credentials = holders[h].provided_credentials]_vars

\* A search has run on a Holder built by new.
C19_Witness ==
    \E c \in DOMAIN calls :
        /\ "search_credentials" \in Range(calls[c].trace)
        /\ holders[calls[c].holder].constructor = "new"
        /\ calls[c].enumerated

\* The request of the call validated, its response mode is supported and
\* its definition resolved.
ReachedTheMatcher(call) ==
    /\ Returned(call)
    /\ Validated(call)
    /\ call.failures \cap {"response_mode", "resolution"} = {}

\* The credentials the Holder of the call draws its candidates from.
HolderPool(call) ==
    IF holders[call.holder].provided_credentials # None
    THEN Range(holders[call.holder].provided_credentials[1])
    ELSE ParsedStore

\* C20 as stated: once the request validated, the mode is supported and the
\* definition resolved, a Holder none of whose credentials satisfies the
\* definition gets an Ok result with an empty candidate list.
C20_EmptyMatchSucceeds ==
    \A c \in DOMAIN calls :
        /\ ReachedTheMatcher(calls[c])
        /\ \A cred \in HolderPool(calls[c]) :
                ~check_presentation_definition(cred, calls[c].url.def)
        => /\ calls[c].result = "Ok"
           /\ calls[c].permission_request # None
           /\ calls[c].permission_request[1].credentials = <<>>

\* C20: the same once the candidate pool exists, that is unless the store
\* could not be enumerated: a pool none of whose credentials satisfies the
\* definition, the empty pool included, gives an Ok result with an empty
\* candidate list; a store that cannot be enumerated gives VdcCollection.
C20_EmptyMatchOfAPoolSucceeds ==
    \A c \in DOMAIN calls :
        ReachedTheMatcher(calls[c]) =>
            IF "enumeration" \in calls[c].failures
            THEN /\ calls[c].result = "Err"
                 /\ calls[c].error = "VdcCollection"
                 /\ calls[c].permission_request = None
            ELSE (\A cred \in Range(calls[c].tested) :
                    ~check_presentation_definition(cred, calls[c].url.def))
                 => /\ calls[c].result = "Ok"
                    /\ calls[c].permission_request # None
                    /\ calls[c].permission_request[1].credentials = <<>>

\* A pool with a credential in it, none satisfying the definition.
C20_Witness ==
    \E c \in DOMAIN calls :
        /\ calls[c].pc = "offered"
        /\ calls[c].tested # <<>>
        /\ calls[c].permission_request[1].credentials = <<>>

HolderSteps(call) ==
    IF call.pc = "validating"
    THEN {authorization_request(call, holders[call.holder], sigOk) :
            sigOk \in BOOLEAN}
    ELSE IF call.pc = "resolving"
    THEN {permission_request(call, holders[call.holder], store,
                             outcome, enumOk, getOutcome) :
            outcome \in ResolveOutcomes(call.request[1]),
            enumOk \in BOOLEAN,
            getOutcome \in [1..Len(store) -> GetOutcomes]}
    ELSE IF call.pc \in {"responded", "submit_failed"}
    THEN {submit_permission_response(call, buildOk) : buildOk \in BOOLEAN}
    ELSE IF call.pc = "posting"
    THEN {submit_response_result(call, outcome) : outcome \in DeliveryOutcomes}
    ELSE {}

\* A step of the caller on its own call: a new request, a selection, the
\* drop of a suspended call or of what a call returned.
CallerStep(before, after) ==
    \/ /\ before.pc = "idle"
       /\ after.pc = "validating"
       /\ after = [IdleCall EXCEPT !.pc = "validating",
                                   !.holder = after.holder, !.url = after.url]
    \/ /\ before.pc = "offered"
       /\ after.pc = "responded"
       /\ after.response # None
       /\ after = [before EXCEPT
                    !.pc = "responded",
                    !.response =
                        Some(create_permission_response(
                                before.permission_request[1],
                                after.response[1].selected_credentials))]
    \/ /\ before.pc \in Suspended
       /\ after = [IdleCall EXCEPT !.pc = "abandoned"]
    \/ /\ before.pc \in Resting \cup {"abandoned"}
       /\ after = IdleCall

\* C13: calls running at once, on one Holder or on Holders sharing the
\* store, do not wait on one another and share no mutable state: a
\* suspended call can always take its next step whatever the other calls
\* do, a step changes one call only and leaves the store and the Holders
\* as they are, and what the Holder returns to a call is what it may
\* return to that call running alone.
C13_CallsAreIndependent ==
    /\ [](\A c \in DOMAIN calls :
            /\ calls[c].pc = "validating" => ENABLED AuthorizationRequest(c)
            /\ calls[c].pc = "resolving" => ENABLED PermissionRequest(c)
            /\ calls[c].pc \in {"responded", "submit_failed"}
                    => ENABLED SubmitPermissionResponse(c)
            /\ calls[c].pc = "posting" => ENABLED SubmitResponseResult(c))
    /\ [][/\ store' = store
          /\ holders' = holders
          /\ \A c \in DOMAIN calls :
                calls'[c] # calls[c] =>
                    /\ \A d \in DOMAIN calls \ {c} : calls'[d] = calls[d]
                    /\ \/ calls'[c] \in HolderSteps(calls[c])
                       \/ CallerStep(calls[c], calls'[c])]_vars

\* Two calls suspended at once on one Holder, one in authorization_request
\* and one in submit_permission_response.
C13_Witness ==
    \E c, d \in DOMAIN calls :
        /\ c # d
        /\ calls[c].holder = calls[d].holder
        /\ calls[c].pc = "resolving"
        /\ calls[d].pc = "posting"

\* The two calls draw their candidates from equal inputs: Holders on the
\* store whose lookups all succeeded, or Holders built with equal lists.
SameCandidateInputs(c, d) ==
    LET hc == holders[calls[c].holder]
        hd == holders[calls[d].holder]
    IN  /\ hc.constructor = hd.constructor
        /\ hc.constructor = "new_with_credentials"
                => hc.provided_credentials = hd.provided_credentials
        /\ hc.constructor = "new"
                => /\ "lookup" \notin calls[c].failures
                   /\ "lookup" \notin calls[d].failures

====
